---- MODULE Spec2Model ----
(***************************************************************************)
(* Collections-C: the dynamic array (cc_array.c) and the singly linked     *)
(* list (cc_slist.c), as state machines.                                   *)
(*                                                                         *)
(* The array part observes one CC_Array object `ar`.  size_t is an         *)
(* unsigned word of WordBits bits; the buffer is counted in slots, a slot  *)
(* being one allocation unit (a pointer has size 1).  The                  *)
(* record field `buffer` holds the contents of the slots [0, size); the    *)
(* field `slots` is the number of slots the current buffer was allocated   *)
(* with, which the code itself never stores.  `ret` is what the last call   *)
(* returned and `oob` whether it touched a slot outside its buffers.  An   *)
(* operation is an operator from the array and the arguments to the        *)
(* array afterwards, the status returned and the value stored through the  *)
(* out parameter.                                                          *)
(***************************************************************************)
EXTENDS Integers, Sequences, FiniteSets, TLC

\* ------------------------------------------------------------------ bounds
WordBits  == 5    \* width of size_t
MantBits  == 3    \* significand width of float (FLT_MANT_DIG)
NumElems  == 2    \* distinct element references the caller uses
MaxNodes  == 4    \* list nodes the allocator can hand out
MaxVaried == 2    \* longer arrays hold only the reference 1

\* ------------------------------------------------------- program constants
DEFAULT_CAPACITY == 8
DEFAULT_EXPANSION_FACTOR == 2

SIZE_MAX == 2^WordBits - 1
\* include/cc_common.h: ((size_t) - 2)
CC_MAX_ELEMENTS == SIZE_MAX - 1

CC_OK == "CC_OK"
CC_ERR_ALLOC == "CC_ERR_ALLOC"
CC_ERR_INVALID_RANGE == "CC_ERR_INVALID_RANGE"
CC_ERR_MAX_CAPACITY == "CC_ERR_MAX_CAPACITY"
CC_ERR_OUT_OF_RANGE == "CC_ERR_OUT_OF_RANGE"
CC_ERR_VALUE_NOT_FOUND == "CC_ERR_VALUE_NOT_FOUND"
\* the call touched memory outside its buffer and the process was killed
SIGSEGV == "SIGSEGV"
\* a function of return type void, or one that returns a count
VOID == "void"

Elems == 1..NumElems
NoElem == 0

VARIABLES ar, ret, oob, sl, lret

avars == <<ar, ret, oob>>

lvars == <<sl, lret>>

\* ------------------------------------------------------------- arithmetic
\* size_t arithmetic wraps
Wrap(n) == n % (2^WordBits)

Min(a, b) == IF a < b THEN a ELSE b

\* number of significant bits of n
BitLen(n) == CHOOSE k \in 0..(WordBits + 1) : n < 2^k /\ (k = 0 \/ n >= 2^(k - 1))

\* size_t -> float: round to MantBits significant bits, ties to even
ToFloat(n) ==
    IF BitLen(n) <= MantBits THEN n
    ELSE LET ulp == 2^(BitLen(n) - MantBits)
             lo  == (n \div ulp) * ulp
             rem == n - lo
         IN  IF 2 * rem < ulp THEN lo
             ELSE IF 2 * rem > ulp THEN lo + ulp
             ELSE IF (lo \div ulp) % 2 = 0 THEN lo ELSE lo + ulp

\* What a build yields for (size_t) x when the float x is not below 2^WordBits:
\* the conversion is undefined; builds in use give 0, 2^(WordBits-1) or SIZE_MAX.
ConvOutcomes == {0, 2^(WordBits - 1), SIZE_MAX}

\* float -> size_t of value x (x is integral here: factors are 0 and 2)
ToSizeT(x, ub) == IF x <= SIZE_MAX THEN x ELSE ub

\* ------------------------------------------------------------------ array
Res(a, r, o, bad) == [ar |-> a, ret |-> r, out |-> o, oob |-> bad]

cc_array_new ==
    [size |-> 0, capacity |-> DEFAULT_CAPACITY, exp_factor |-> DEFAULT_EXPANSION_FACTOR,
     buffer |-> << >>, slots |-> DEFAULT_CAPACITY]

\* the slots [0, n) of memory image mem
Live(mem, n) == SubSeq(mem, 1, Min(n, Len(mem)))

\* expand_capacity without the test for a capacity already at CC_MAX_ELEMENTS
expand_capacity_unchecked(a, ub, allocOK) ==
    LET new_capacity == ToSizeT(ToFloat(a.capacity) * a.exp_factor, ub)
        cap == IF new_capacity <= a.capacity THEN CC_MAX_ELEMENTS ELSE new_capacity
        a1  == [a EXCEPT !.capacity = cap]
    IN  IF ~allocOK THEN Res(a1, CC_ERR_ALLOC, NoElem, FALSE)
        ELSE Res([a1 EXCEPT !.slots = cap], CC_OK, NoElem,
                 a.size > a.slots \/ a.size > cap)

expand_capacity(a, ub, allocOK) ==
    IF a.capacity = CC_MAX_ELEMENTS THEN Res(a, CC_ERR_MAX_CAPACITY, NoElem, FALSE)
    ELSE LET new_capacity == ToSizeT(ToFloat(a.capacity) * a.exp_factor, ub)
             cap == IF new_capacity <= a.capacity THEN CC_MAX_ELEMENTS ELSE new_capacity
             a1  == [a EXCEPT !.capacity = cap]
         IN  IF ~allocOK THEN Res(a1, CC_ERR_ALLOC, NoElem, FALSE)
             ELSE Res([a1 EXCEPT !.slots = cap], CC_OK, NoElem,
                      a.size > a.slots \/ a.size > cap)

\* cc_array_add that expands one element early, on size + 1 >= capacity
cc_array_add_eager(a, element, ub, allocOK) ==
    LET x == IF a.size + 1 >= a.capacity THEN expand_capacity(a, ub, allocOK)
             ELSE Res(a, CC_OK, NoElem, FALSE)
    IN  IF x.ret # CC_OK THEN x
        ELSE LET b == x.ar
                 n == Wrap(b.size + 1)
             IN  Res([b EXCEPT !.size = n, !.buffer = Live(Append(b.buffer, element), n)],
                     CC_OK, NoElem, x.oob \/ b.size >= b.slots)

cc_array_add(a, element, ub, allocOK) ==
    LET x == IF a.size >= a.capacity THEN expand_capacity(a, ub, allocOK)
             ELSE Res(a, CC_OK, NoElem, FALSE)
    IN  IF x.ret # CC_OK THEN x
        ELSE LET b == x.ar
                 n == Wrap(b.size + 1)
             IN  Res([b EXCEPT !.size = n, !.buffer = Live(Append(b.buffer, element), n)],
                     CC_OK, NoElem, x.oob \/ b.size >= b.slots)

\* buffer after memmove(&buffer[index + 1], &buffer[index], size - index) and
\* buffer[index] = element
ShiftRight(buf, index, element) ==
    SubSeq(buf, 1, index) \o <<element>> \o SubSeq(buf, index + 1, Len(buf))

\* cc_array_add_at without the branch that hands index = size to cc_array_add
cc_array_add_at_noappend(a, element, index, ub, allocOK) ==
    IF (a.size = 0 /\ index # 0) \/ index > Wrap(a.size - 1)
    THEN Res(a, CC_ERR_OUT_OF_RANGE, NoElem, FALSE)
    ELSE LET x == IF a.size >= a.capacity THEN expand_capacity(a, ub, allocOK)
                  ELSE Res(a, CC_OK, NoElem, FALSE)
         IN  IF x.ret # CC_OK THEN x
             ELSE LET b == x.ar
                      n == Wrap(b.size + 1)
                  IN  Res([b EXCEPT !.size = n,
                                    !.buffer = Live(ShiftRight(b.buffer, index, element), n)],
                          CC_OK, NoElem, x.oob \/ b.size >= b.slots)

cc_array_add_at(a, element, index, ub, allocOK) ==
    IF index = a.size THEN cc_array_add(a, element, ub, allocOK)
    ELSE IF (a.size = 0 /\ index # 0) \/ index > Wrap(a.size - 1)
         THEN Res(a, CC_ERR_OUT_OF_RANGE, NoElem, FALSE)
    ELSE LET x == IF a.size >= a.capacity THEN expand_capacity(a, ub, allocOK)
                  ELSE Res(a, CC_OK, NoElem, FALSE)
         IN  IF x.ret # CC_OK THEN x
             ELSE LET b == x.ar
                      n == Wrap(b.size + 1)
                  IN  Res([b EXCEPT !.size = n,
                                    !.buffer = Live(ShiftRight(b.buffer, index, element), n)],
                          CC_OK, NoElem, x.oob \/ b.size >= b.slots)

cc_array_replace_at(a, element, index) ==
    IF index >= a.size THEN Res(a, CC_ERR_OUT_OF_RANGE, NoElem, FALSE)
    ELSE Res([a EXCEPT !.buffer[index + 1] = element], CC_OK, a.buffer[index + 1],
             index >= a.slots)

cc_array_swap_at(a, index1, index2) ==
    IF index1 >= a.size \/ index2 >= a.size THEN Res(a, CC_ERR_OUT_OF_RANGE, NoElem, FALSE)
    ELSE Res([a EXCEPT !.buffer[index1 + 1] = a.buffer[index2 + 1],
                       !.buffer[index2 + 1] = a.buffer[index1 + 1]],
             CC_OK, NoElem, index1 >= a.slots \/ index2 >= a.slots)

\* indices i < size with buffer[i] == element
Matches(a, element) == {i \in 0..(a.size - 1) : a.buffer[i + 1] = element}

SetMin(S) == CHOOSE m \in S : \A k \in S : m <= k

\* out is the index found; the loop reads the slots up to it, or all of [0, size)
cc_array_index_of(a, element) ==
    IF Matches(a, element) = {} THEN Res(a, CC_ERR_OUT_OF_RANGE, NoElem, a.size > a.slots)
    ELSE LET i == SetMin(Matches(a, element))
         IN  Res(a, CC_OK, i, i >= a.slots)

\* buffer after memmove(&buffer[index], &buffer[index + 1], size - 1 - index)
ShiftLeft(buf, index) == SubSeq(buf, 1, index) \o SubSeq(buf, index + 2, Len(buf))

\* cc_array_remove that decrements size before it looks at the status of index_of
cc_array_remove_early(a, element) ==
    LET f == cc_array_index_of(a, element)
        index == f.out
    IN  IF f.ret = CC_ERR_OUT_OF_RANGE
        THEN Res([a EXCEPT !.size = Wrap(a.size - 1)], CC_ERR_VALUE_NOT_FOUND, NoElem, f.oob)
        ELSE Res([a EXCEPT !.size = Wrap(a.size - 1), !.buffer = ShiftLeft(a.buffer, index)],
                 CC_OK, element,
                 f.oob \/ (index # Wrap(a.size - 1) /\ a.size > a.slots))

\* cc_array_remove that takes the highest matching index
cc_array_remove_last(a, element) ==
    IF Matches(a, element) = {} THEN Res(a, CC_ERR_VALUE_NOT_FOUND, NoElem, a.size > a.slots)
    ELSE LET index == CHOOSE i \in Matches(a, element) : \A j \in Matches(a, element) : j <= i
         IN  Res([a EXCEPT !.size = Wrap(a.size - 1), !.buffer = ShiftLeft(a.buffer, index)],
                 CC_OK, element, a.size > a.slots)

cc_array_remove(a, element) ==
    LET f == cc_array_index_of(a, element)
        index == f.out
    IN  IF f.ret = CC_ERR_OUT_OF_RANGE THEN Res(a, CC_ERR_VALUE_NOT_FOUND, NoElem, f.oob)
        ELSE Res([a EXCEPT !.size = Wrap(a.size - 1), !.buffer = ShiftLeft(a.buffer, index)],
                 CC_OK, element,
                 f.oob \/ (index # Wrap(a.size - 1) /\ a.size > a.slots))

\* cc_array_remove_at that drops the last slot without moving the block
cc_array_remove_at_noshift(a, index) ==
    IF index >= a.size THEN Res(a, CC_ERR_OUT_OF_RANGE, NoElem, FALSE)
    ELSE Res([a EXCEPT !.size = Wrap(a.size - 1),
                       !.buffer = SubSeq(a.buffer, 1, Len(a.buffer) - 1)],
             CC_OK, a.buffer[index + 1], index >= a.slots)

cc_array_remove_at(a, index) ==
    IF index >= a.size THEN Res(a, CC_ERR_OUT_OF_RANGE, NoElem, FALSE)
    ELSE Res([a EXCEPT !.size = Wrap(a.size - 1), !.buffer = ShiftLeft(a.buffer, index)],
             CC_OK, a.buffer[index + 1],
             index >= a.slots \/ (index # Wrap(a.size - 1) /\ a.size > a.slots))

cc_array_remove_all(a) == Res([a EXCEPT !.size = 0, !.buffer = << >>], VOID, NoElem, FALSE)

\* the for loop of cc_array_remove_all_free: the references free is called
\* with, in the order of the calls
FreeLoop(buf) == [k \in 1..Len(buf) |-> buf[k]]

\* out is the sequence of references free was called with
cc_array_remove_all_free(a) ==
    [cc_array_remove_all(a) EXCEPT !.oob = a.size > a.slots, !.out = FreeLoop(a.buffer)]

cc_array_get_at(a, index) ==
    IF index >= a.size THEN Res(a, CC_ERR_OUT_OF_RANGE, NoElem, FALSE)
    ELSE Res(a, CC_OK, a.buffer[index + 1], index >= a.slots)

\* whether the buffer pointer of the array subarray makes points into the
\* source's buffer: it does not, the buffer comes from malloc
SubarraySharesBuffer == FALSE

\* cc_array_subarray with the memcpy reading from ar->buffer, not &ar->buffer[b]
cc_array_subarray_from0(a, b, e, allocAr, allocBuf) ==
    IF b > e \/ e >= a.size THEN Res(a, CC_ERR_INVALID_RANGE, NoElem, FALSE)
    ELSE IF ~allocAr \/ ~allocBuf THEN Res(a, CC_ERR_ALLOC, NoElem, FALSE)
    ELSE LET n == e - b + 1
         IN  Res([size |-> n, capacity |-> n, exp_factor |-> 0,
                  buffer |-> SubSeq(a.buffer, 1, n), slots |-> a.capacity],
                 CC_OK, NoElem, e >= a.slots \/ n > a.capacity)

\* on success the result's ar is the new array; the source is not written
cc_array_subarray(a, b, e, allocAr, allocBuf) ==
    IF b > e \/ e >= a.size THEN Res(a, CC_ERR_INVALID_RANGE, NoElem, FALSE)
    ELSE IF ~allocAr \/ ~allocBuf THEN Res(a, CC_ERR_ALLOC, NoElem, FALSE)
    ELSE LET n == e - b + 1
         IN  Res([size |-> n, capacity |-> n, exp_factor |-> 0,
                  buffer |-> SubSeq(a.buffer, b + 1, e + 1), slots |-> a.capacity],
                 CC_OK, NoElem, e >= a.slots \/ n > a.capacity)

\* whether the buffer pointer of the array copy_shallow makes is the source's:
\* it is not, the buffer comes from calloc
CopySharesBuffer == FALSE

\* on success the result's ar is the copy; the source is not written
cc_array_copy_shallow(a, allocAr, allocBuf) ==
    IF ~allocAr \/ ~allocBuf THEN Res(a, CC_ERR_ALLOC, NoElem, FALSE)
    ELSE Res([size |-> a.size, capacity |-> a.capacity, exp_factor |-> a.exp_factor,
              buffer |-> a.buffer, slots |-> a.capacity],
             CC_OK, NoElem, a.size > a.slots \/ a.size > a.capacity)

\* the swap loop without tmp: buffer[i] = buffer[j] and buffer[j] left as it is
ReverseLoop_notmp(buf) ==
    [k \in 1..Len(buf) |-> IF k <= Len(buf) \div 2 THEN buf[Len(buf) + 1 - k] ELSE buf[k]]

\* the result of the swap loop for i in [0, size / 2), j = size - 1 - i
ReverseLoop(buf) ==
    [k \in 1..Len(buf) |->
        IF k <= Len(buf) \div 2 \/ k > Len(buf) - (Len(buf) \div 2)
        THEN buf[Len(buf) + 1 - k] ELSE buf[k]]

cc_array_reverse(a) ==
    IF a.size = 0 THEN Res(a, VOID, NoElem, FALSE)
    ELSE Res([a EXCEPT !.buffer = ReverseLoop(a.buffer)], VOID, NoElem,
             a.size >= 2 /\ a.size > a.slots)

cc_array_trim_capacity(a, allocOK) ==
    IF a.size = a.capacity THEN Res(a, CC_OK, NoElem, FALSE)
    ELSE IF ~allocOK THEN Res(a, CC_ERR_ALLOC, NoElem, FALSE)
    ELSE LET size == IF a.size < 1 THEN 1 ELSE a.size
         IN  Res([a EXCEPT !.capacity = a.size, !.slots = a.size], CC_OK, NoElem,
                 size > a.slots \/ size > a.size)

cc_array_contains(a, element) ==
    Res(a, VOID, Cardinality(Matches(a, element)), a.size > a.slots)

\* ---------------------------------------------------------------- inputs
\* the caller lets an array grow past MaxVaried elements only while every
\* reference in it, and the one stored, is the reference 1, or, by one
\* element, with a second reference to its first element
InputOK(a, e) ==
    \/ a.size < MaxVaried
    \/ (e = 1 /\ \A k \in 1..Len(a.buffer) : a.buffer[k] = 1)
    \/ (a.size = MaxVaried /\ Len(a.buffer) = a.size /\ e = a.buffer[1])

\* the same for a reference stored over an existing slot
StoreOK(a, e) ==
    \/ a.size <= MaxVaried
    \/ (e = 1 /\ \A k \in 1..Len(a.buffer) : a.buffer[k] = 1)

\* the caller reads, overwrites, permutes and slices short arrays only; a long
\* array is driven through the calls that change its size or its capacity
Short(a) == a.size <= MaxVaried + 1

\* index arguments: every index up to one past the end of a short array, the
\* last two indices and the two past the end of a long one
IndexInputs(a) ==
    {i \in 0..SIZE_MAX : i <= a.size + 1 /\ (Short(a) \/ i = 0 \/ i + 2 >= a.size)}

\* the outcomes of the float -> size_t conversion in expand_capacity: one where
\* it is defined
ConvInputs(a) ==
    IF ToFloat(a.capacity) * a.exp_factor <= SIZE_MAX THEN {0} ELSE ConvOutcomes

\* the allocator may refuse any request
AllocInputs == BOOLEAN

\* ranges <<b, e>> for subarray: every range of the array, one that is reversed
\* and one that ends past the last element
SubarrayInputs(a) ==
    {x \in IndexInputs(a) \X IndexInputs(a) : x[1] <= x[2] /\ x[2] < a.size}
    \cup {<<1, 0>>, <<0, a.size>>}

\* subarray allocates, the array and then its buffer, only for a valid range
SubarrayAllocs(a, b, e) ==
    IF b > e \/ e >= a.size THEN {<<TRUE, TRUE>>}
    ELSE {<<FALSE, TRUE>>, <<TRUE, FALSE>>, <<TRUE, TRUE>>}

\* add and add_at allocate only when the array is full
ExpandAllocs(a) == IF a.size >= a.capacity THEN AllocInputs ELSE {TRUE}

\* a call returns r, or, having left its buffer, is killed instead
Finish(r) ==
    /\ oob' = r.oob
    /\ \/ (ar' = r.ar /\ ret' = r.ret)
       \/ (r.oob /\ ar' = ar /\ ret' = SIGSEGV)
    /\ UNCHANGED lvars

Running == ret # SIGSEGV

\* ---------------------------------------------------------------- actions
ArrayInit ==
    /\ ar = cc_array_new
    /\ ret = CC_OK
    /\ oob = FALSE

New ==
    /\ Running
    /\ Finish(Res(cc_array_new, CC_OK, NoElem, FALSE))

Add ==
    /\ Running
    /\ \E e \in Elems, ub \in ConvInputs(ar), allocOK \in ExpandAllocs(ar) :
          /\ InputOK(ar, e)
          /\ Finish(cc_array_add(ar, e, ub, allocOK))

AddAt ==
    /\ Running
    /\ \E e \in Elems, i \in IndexInputs(ar), ub \in ConvInputs(ar), allocOK \in ExpandAllocs(ar) :
          /\ InputOK(ar, e)
          /\ Finish(cc_array_add_at(ar, e, i, ub, allocOK))

ReplaceAt ==
    /\ Running /\ Short(ar)
    /\ \E e \in Elems, i \in IndexInputs(ar) :
          /\ StoreOK(ar, e)
          /\ Finish(cc_array_replace_at(ar, e, i))

SwapAt ==
    /\ Running /\ Short(ar)
    /\ \E i \in IndexInputs(ar) : \E j \in {k \in IndexInputs(ar) : k >= i} :
          Finish(cc_array_swap_at(ar, i, j))

Remove ==
    /\ Running
    /\ \E e \in Elems : Finish(cc_array_remove(ar, e))

RemoveAt ==
    /\ Running
    /\ \E i \in IndexInputs(ar) : Finish(cc_array_remove_at(ar, i))

RemoveAll ==
    /\ Running
    /\ Finish(cc_array_remove_all(ar))

RemoveAllFree ==
    /\ Running
    /\ Finish(cc_array_remove_all_free(ar))

GetAt ==
    /\ Running /\ Short(ar)
    /\ \E i \in IndexInputs(ar) : Finish(cc_array_get_at(ar, i))

IndexOf ==
    /\ Running /\ Short(ar)
    /\ \E e \in Elems : Finish(cc_array_index_of(ar, e))

Subarray ==
    /\ Running /\ Short(ar)
    /\ \E x \in SubarrayInputs(ar) : \E f \in SubarrayAllocs(ar, x[1], x[2]) :
          Finish(cc_array_subarray(ar, x[1], x[2], f[1], f[2]))

CopyShallow ==
    /\ Running
    /\ \E allocAr \in AllocInputs, allocBuf \in AllocInputs :
          Finish(cc_array_copy_shallow(ar, allocAr, allocBuf))

Reverse ==
    /\ Running /\ Short(ar)
    /\ Finish(cc_array_reverse(ar))

TrimCapacity ==
    /\ Running
    /\ \E allocOK \in AllocInputs :
          Finish(cc_array_trim_capacity(ar, allocOK))

Contains ==
    /\ Running /\ Short(ar)
    /\ \E e \in Elems : Finish(cc_array_contains(ar, e))

ArrayNext ==
    \/ New \/ Add \/ AddAt \/ ReplaceAt \/ SwapAt \/ Remove \/ RemoveAt \/ RemoveAll
    \/ RemoveAllFree \/ GetAt \/ IndexOf \/ Subarray \/ CopyShallow \/ Reverse
    \/ TrimCapacity \/ Contains

\* ------------------------------------------------------------------- list
(***************************************************************************)
(* The list part observes the two CC_SList objects "a" and "b" and the     *)
(* SNode heap.  sl.S is the set of list objects that exist, sl.L their     *)
(* structs, sl.live the nodes allocated and not freed, sl.next and sl.data *)
(* the nodes' fields.  A freed node's fields are kept as zero: no code     *)
(* reads them.  calloc hands out the free node of the lowest address.      *)
(***************************************************************************)
NULL == 0

Nodes == 1..MaxNodes

ListIds == {"a", "b"}

NoList == [size |-> 0, head |-> NULL, tail |-> NULL]

LRes(h, r, o) == [h |-> h, ret |-> r, out |-> o]

\* calloc(1, sizeof(SNode)): a zeroed node, or NULL
Calloc(h, allocOK) ==
    IF ~allocOK \/ Nodes \ h.live = {} THEN NULL ELSE SetMin(Nodes \ h.live)

Free(h, n) ==
    [h EXCEPT !.live = @ \ {n}, !.next[n] = NULL, !.data[n] = NoElem]

\* n->next
Next_(h, n) == IF n = NULL THEN NULL ELSE h.next[n]

cc_slist_new(h, l, allocOK) ==
    IF ~allocOK THEN LRes(h, CC_ERR_ALLOC, NoElem)
    ELSE LRes([h EXCEPT !.S = @ \cup {l}, !.L[l] = NoList], CC_OK, NoElem)

cc_slist_add_first(h, l, element, allocOK) ==
    LET node == Calloc(h, allocOK)
    IN  IF node = NULL THEN LRes(h, CC_ERR_ALLOC, NoElem)
        ELSE LET h1 == [h EXCEPT !.live = @ \cup {node}, !.data[node] = element]
                 h2 == IF h.L[l].size = 0
                       THEN [h1 EXCEPT !.L[l].head = node, !.L[l].tail = node]
                       ELSE [h1 EXCEPT !.next[node] = h.L[l].head, !.L[l].head = node]
             IN  LRes([h2 EXCEPT !.L[l].size = Wrap(@ + 1)], CC_OK, NoElem)

\* cc_slist_add_last that links the node behind the tail and leaves tail there
cc_slist_add_last_stale_tail(h, l, element, allocOK) ==
    LET node == Calloc(h, allocOK)
    IN  IF node = NULL THEN LRes(h, CC_ERR_ALLOC, NoElem)
        ELSE LET h1 == [h EXCEPT !.live = @ \cup {node}, !.data[node] = element]
                 h2 == IF h.L[l].size = 0
                       THEN [h1 EXCEPT !.L[l].head = node, !.L[l].tail = node]
                       ELSE [h1 EXCEPT !.next[h.L[l].tail] = node]
             IN  LRes([h2 EXCEPT !.L[l].size = Wrap(@ + 1)], CC_OK, NoElem)

cc_slist_add_last(h, l, element, allocOK) ==
    LET node == Calloc(h, allocOK)
    IN  IF node = NULL THEN LRes(h, CC_ERR_ALLOC, NoElem)
        ELSE LET h1 == [h EXCEPT !.live = @ \cup {node}, !.data[node] = element]
                 h2 == IF h.L[l].size = 0
                       THEN [h1 EXCEPT !.L[l].head = node, !.L[l].tail = node]
                       ELSE [h1 EXCEPT !.next[h.L[l].tail] = node, !.L[l].tail = node]
             IN  LRes([h2 EXCEPT !.L[l].size = Wrap(@ + 1)], CC_OK, NoElem)

\* the for loop of get_node_at after i rounds: <<node, prev>>
RECURSIVE WalkTo(_, _, _, _)
WalkTo(h, node, prev, i) ==
    IF i = 0 THEN <<node, prev>> ELSE WalkTo(h, Next_(h, node), node, i - 1)

\* get_node_at whose range test lets index = size through
get_node_at_inclusive(h, l, index) ==
    IF index > h.L[l].size THEN [ret |-> CC_ERR_OUT_OF_RANGE, node |-> NULL, prev |-> NULL]
    ELSE LET w == WalkTo(h, h.L[l].head, NULL, index)
         IN  [ret |-> CC_OK, node |-> w[1], prev |-> w[2]]

get_node_at(h, l, index) ==
    IF index >= h.L[l].size THEN [ret |-> CC_ERR_OUT_OF_RANGE, node |-> NULL, prev |-> NULL]
    ELSE LET w == WalkTo(h, h.L[l].head, NULL, index)
         IN  [ret |-> CC_OK, node |-> w[1], prev |-> w[2]]

\* the while loop of get_node from node on; fuel bounds the walk on a cycle
RECURSIVE FindFrom(_, _, _, _, _)
FindFrom(h, node, prev, element, fuel) ==
    IF node = NULL \/ fuel = 0 THEN [ret |-> CC_ERR_VALUE_NOT_FOUND, node |-> NULL, prev |-> prev]
    ELSE IF h.data[node] = element THEN [ret |-> CC_OK, node |-> node, prev |-> prev]
    ELSE FindFrom(h, Next_(h, node), node, element, fuel - 1)

get_node(h, l, element) == FindFrom(h, h.L[l].head, NULL, element, MaxNodes)

\* unlinkn that leaves tail alone when the last node goes
unlinkn_stale_tail(h, l, node, prev) ==
    LET data == h.data[node]
        h1 == IF prev # NULL THEN [h EXCEPT !.next[prev] = h.next[node]]
              ELSE [h EXCEPT !.L[l].head = h.next[node]]
        h3 == Free(h1, node)
    IN  LRes([h3 EXCEPT !.L[l].size = Wrap(@ - 1)], CC_OK, data)

\* unlinkn that frees the node and does not count it off
unlinkn_keep_size(h, l, node, prev) ==
    LET data == h.data[node]
        h1 == IF prev # NULL THEN [h EXCEPT !.next[prev] = h.next[node]]
              ELSE [h EXCEPT !.L[l].head = h.next[node]]
        h2 == IF h.next[node] = NULL THEN [h1 EXCEPT !.L[l].tail = prev] ELSE h1
    IN  LRes(Free(h2, node), CC_OK, data)

unlinkn(h, l, node, prev) ==
    LET data == h.data[node]
        h1 == IF prev # NULL THEN [h EXCEPT !.next[prev] = h.next[node]]
              ELSE [h EXCEPT !.L[l].head = h.next[node]]
        h2 == IF h.next[node] = NULL THEN [h1 EXCEPT !.L[l].tail = prev] ELSE h1
        h3 == Free(h2, node)
    IN  LRes([h3 EXCEPT !.L[l].size = Wrap(@ - 1)], CC_OK, data)

\* the while loop of unlinkn_all from n on; out collects the data handed to cb
RECURSIVE UnlinkLoop(_, _, _, _)
UnlinkLoop(h, l, n, cbs) ==
    IF n = NULL \/ n \notin h.live THEN LRes(h, TRUE, cbs)
    ELSE LET tmp == h.next[n]
             h1 == Free(h, n)
         IN  UnlinkLoop([h1 EXCEPT !.L[l].size = Wrap(@ - 1)], l, tmp, Append(cbs, h.data[n]))

unlinkn_all(h, l) ==
    IF h.L[l].size = 0 THEN LRes(h, FALSE, << >>)
    ELSE UnlinkLoop(h, l, h.L[l].head, << >>)

cc_slist_add_at(h, l, element, index, allocOK) ==
    LET g == get_node_at(h, l, index)
        new == Calloc(h, allocOK)
    IN  IF g.ret # CC_OK THEN LRes(h, g.ret, NoElem)
        ELSE IF new = NULL THEN LRes(h, CC_ERR_ALLOC, NoElem)
        ELSE LET h1 == [h EXCEPT !.live = @ \cup {new}, !.data[new] = element]
                 h2 == IF g.prev = NULL
                       THEN [h1 EXCEPT !.next[new] = h.L[l].head, !.L[l].head = new]
                       ELSE [h1 EXCEPT !.next[g.prev] = new, !.next[new] = h.next[g.prev]]
             IN  LRes([h2 EXCEPT !.L[l].size = Wrap(@ + 1)], CC_OK, NoElem)

\* cc_slist_splice that links the nodes and forgets to move tail
cc_slist_splice_stale_tail(h, list1, list2) ==
    IF h.L[list2].size = 0 THEN LRes(h, CC_OK, NoElem)
    ELSE LET h1 == IF h.L[list1].size = 0
                   THEN [h EXCEPT !.L[list1].head = h.L[list2].head,
                                  !.L[list1].tail = h.L[list2].tail]
                   ELSE [h EXCEPT !.next[h.L[list1].tail] = h.L[list2].head]
             h2 == [h1 EXCEPT !.L[list1].size = Wrap(@ + h1.L[list2].size)]
         IN  LRes([h2 EXCEPT !.L[list2] = NoList], CC_OK, NoElem)

cc_slist_splice(h, list1, list2) ==
    IF h.L[list2].size = 0 THEN LRes(h, CC_OK, NoElem)
    ELSE LET h1 == IF h.L[list1].size = 0
                   THEN [h EXCEPT !.L[list1].head = h.L[list2].head,
                                  !.L[list1].tail = h.L[list2].tail]
                   ELSE [h EXCEPT !.next[h.L[list1].tail] = h.L[list2].head,
                                  !.L[list1].tail = h.L[list2].tail]
             h2 == [h1 EXCEPT !.L[list1].size = Wrap(@ + h1.L[list2].size)]
         IN  LRes([h2 EXCEPT !.L[list2] = NoList], CC_OK, NoElem)

cc_slist_remove(h, l, element) ==
    LET g == get_node(h, l, element)
    IN  IF g.ret # CC_OK THEN LRes(h, g.ret, NoElem)
        ELSE unlinkn(h, l, g.node, g.prev)

cc_slist_remove_at(h, l, index) ==
    LET g == get_node_at(h, l, index)
    IN  IF g.ret # CC_OK THEN LRes(h, g.ret, NoElem)
        ELSE unlinkn(h, l, g.node, g.prev)

cc_slist_remove_first(h, l) ==
    IF h.L[l].size = 0 THEN LRes(h, CC_ERR_VALUE_NOT_FOUND, NoElem)
    ELSE unlinkn(h, l, h.L[l].head, NULL)

\* cc_slist_remove_all that frees the nodes and leaves head and tail as they are
cc_slist_remove_all_keep_ends(h, l) ==
    LET u == unlinkn_all(h, l)
    IN  IF u.ret THEN LRes(u.h, CC_OK, << >>)
        ELSE LRes(h, CC_ERR_VALUE_NOT_FOUND, << >>)

cc_slist_remove_all(h, l) ==
    LET u == unlinkn_all(h, l)
    IN  IF u.ret THEN LRes([u.h EXCEPT !.L[l].head = NULL, !.L[l].tail = NULL], CC_OK, << >>)
        ELSE LRes(h, CC_ERR_VALUE_NOT_FOUND, << >>)

\* cc_slist_remove_all_cb that hands unlinkn_all no callback
cc_slist_remove_all_cb_null(h, l) ==
    LET u == unlinkn_all(h, l)
    IN  IF u.ret THEN LRes([u.h EXCEPT !.L[l].head = NULL, !.L[l].tail = NULL], CC_OK, << >>)
        ELSE LRes(h, CC_ERR_VALUE_NOT_FOUND, << >>)

\* out is the sequence of references cb was called with
cc_slist_remove_all_cb(h, l) ==
    LET u == unlinkn_all(h, l)
    IN  IF u.ret THEN LRes([u.h EXCEPT !.L[l].head = NULL, !.L[l].tail = NULL], CC_OK, u.out)
        ELSE LRes(h, CC_ERR_VALUE_NOT_FOUND, << >>)

cc_slist_destroy(h, l) ==
    LET r == cc_slist_remove_all(h, l)
    IN  LRes([r.h EXCEPT !.S = @ \ {l}, !.L[l] = NoList], VOID, NoElem)

cc_slist_replace_at(h, l, element, index) ==
    LET g == get_node_at(h, l, index)
    IN  IF g.ret # CC_OK THEN LRes(h, g.ret, NoElem)
        ELSE LRes([h EXCEPT !.data[g.node] = element], CC_OK, h.data[g.node])

cc_slist_get_at(h, l, index) ==
    LET g == get_node_at(h, l, index)
    IN  IF g.ret # CC_OK THEN LRes(h, g.ret, NoElem)
        ELSE LRes(h, CC_OK, h.data[g.node])

\* the while loop of cc_slist_reverse: <<next fields, prev>>
RECURSIVE FlipLoop(_, _, _)
FlipLoop(nxt, prev, flip) ==
    IF flip = NULL THEN <<nxt, prev>>
    ELSE FlipLoop([nxt EXCEPT ![flip] = prev], flip, nxt[flip])

\* cc_slist_reverse without the assignment list->tail = list->head
cc_slist_reverse_stale_tail(h, l) ==
    IF h.L[l].size = 0 \/ h.L[l].size = 1 THEN LRes(h, VOID, NoElem)
    ELSE LET f == FlipLoop(h.next, NULL, h.L[l].head)
         IN  LRes([h EXCEPT !.next = f[1], !.L[l].head = f[2]], VOID, NoElem)

cc_slist_reverse(h, l) ==
    IF h.L[l].size = 0 \/ h.L[l].size = 1 THEN LRes(h, VOID, NoElem)
    ELSE LET f == FlipLoop(h.next, NULL, h.L[l].head)
         IN  LRes([h EXCEPT !.L[l].tail = h.L[l].head, !.next = f[1], !.L[l].head = f[2]],
                  VOID, NoElem)

\* the while loop of cc_slist_copy_shallow from node on; the allocation number
\* failAt fails (none when it is 0), k allocations have been made
RECURSIVE CopyLoop(_, _, _, _, _)
CopyLoop(h, node, copy, failAt, k) ==
    IF node = NULL THEN LRes(h, CC_OK, NoElem)
    ELSE LET r == cc_slist_add_last(h, copy, h.data[node], failAt # k + 1)
         IN  IF r.ret # CC_OK THEN LRes(cc_slist_destroy(r.h, copy).h, r.ret, NoElem)
             ELSE CopyLoop(r.h, Next_(h, node), copy, failAt, k + 1)

\* cc_slist_copy_shallow that copies the list structure and not the nodes
cc_slist_copy_shallow_struct(h, list, copy, failAt) ==
    LET n == cc_slist_new(h, copy, failAt # 1)
    IN  IF n.ret # CC_OK THEN n
        ELSE LRes([n.h EXCEPT !.L[copy] = h.L[list]], CC_OK, NoElem)

\* copy is the list object the result is stored in
cc_slist_copy_shallow(h, list, copy, failAt) ==
    LET n == cc_slist_new(h, copy, failAt # 1)
    IN  IF n.ret # CC_OK THEN n
        ELSE CopyLoop(n.h, h.L[list].head, copy, failAt, 1)

\* the while loop of cc_slist_contains
RECURSIVE CountFrom(_, _, _, _)
CountFrom(h, node, element, fuel) ==
    IF node = NULL \/ fuel = 0 THEN 0
    ELSE (IF h.data[node] = element THEN 1 ELSE 0) + CountFrom(h, h.next[node], element, fuel - 1)

cc_slist_contains(h, l, element) ==
    LRes(h, VOID, CountFrom(h, h.L[l].head, element, MaxNodes))

\* the nodes from n on along the next fields, until NULL or a node seen before
RECURSIVE Chain(_, _, _)
Chain(h, n, seen) ==
    IF n = NULL \/ n \in seen THEN << >> ELSE <<n>> \o Chain(h, h.next[n], seen \cup {n})

\* the references a list holds, head first
Seq_(h, l) == LET c == Chain(h, h.L[l].head, {}) IN [k \in 1..Len(c) |-> h.data[c[k]]]

ListIndexInputs(h, l) == 0..(h.L[l].size + 1)

\* which allocation of a copy fails: none, the list's or that of a node
FailInputs(h, l) == 0..(h.L[l].size + 1)

\* the elements of the set S of numbers, ascending
RECURSIVE Ascending(_)
Ascending(S) == IF S = {} THEN << >> ELSE <<SetMin(S)>> \o Ascending(S \ {SetMin(S)})

\* Addresses carry no meaning: the code never orders or prints them, and calloc
\* may return any free one.  Renamed(h) is heap h with its live nodes renamed
\* 1, 2, ..: the nodes of list a from its head on, then those of list b, then
\* the live nodes no list reaches; these stay allocated, and their fields,
\* which nothing can read any more, are cleared.  A heap in which a pointer
\* leads to a freed node or two lists reach the same node is left as it is.
Renamed(h) ==
    LET reach == Chain(h, h.L["a"].head, {}) \o Chain(h, h.L["b"].head, {})
        rs    == {reach[k] : k \in 1..Len(reach)}
        order == reach \o Ascending(h.live \ rs)
        n     == Len(order)
        ptrs  == {h.next[m] : m \in h.live}
                     \cup {h.L[l].head : l \in ListIds} \cup {h.L[l].tail : l \in ListIds}
        clean == /\ Cardinality(rs) = Len(reach)
                 /\ rs \subseteq h.live
                 /\ ptrs \subseteq h.live \cup {NULL}
        pos(m) == IF m = NULL THEN NULL ELSE CHOOSE k \in 1..n : order[k] = m
    IN  IF ~clean THEN h
        ELSE [S    |-> h.S,
              L    |-> [l \in ListIds |-> [size |-> h.L[l].size,
                                           head |-> pos(h.L[l].head),
                                           tail |-> pos(h.L[l].tail)]],
              live |-> 1..n,
              next |-> [m \in Nodes |-> IF m <= Len(reach) THEN pos(h.next[order[m]])
                                        ELSE NULL],
              data |-> [m \in Nodes |-> IF m <= Len(reach) THEN h.data[order[m]]
                                        ELSE NoElem]]

LFinish(r) ==
    /\ sl' = Renamed(r.h)
    /\ lret' = r.ret
    /\ UNCHANGED avars

ListInit ==
    /\ sl = [S |-> {"a"}, L |-> [l \in ListIds |-> NoList], live |-> {},
             next |-> [n \in Nodes |-> NULL], data |-> [n \in Nodes |-> NoElem]]
    /\ lret = CC_OK

SListNew ==
    \E l \in ListIds \ sl.S, allocOK \in AllocInputs : LFinish(cc_slist_new(sl, l, allocOK))

SListDestroy ==
    \E l \in sl.S : LFinish(cc_slist_destroy(sl, l))

SListAddFirst ==
    \E l \in sl.S, e \in Elems, allocOK \in AllocInputs :
        LFinish(cc_slist_add_first(sl, l, e, allocOK))

SListAddLast ==
    \E l \in sl.S, e \in Elems, allocOK \in AllocInputs :
        LFinish(cc_slist_add_last(sl, l, e, allocOK))

SListAddAt ==
    \E l \in sl.S, e \in Elems, allocOK \in AllocInputs : \E i \in ListIndexInputs(sl, l) :
        LFinish(cc_slist_add_at(sl, l, e, i, allocOK))

SListSplice ==
    \E l1 \in sl.S, l2 \in sl.S : LFinish(cc_slist_splice(sl, l1, l2))

SListRemove ==
    \E l \in sl.S, e \in Elems : LFinish(cc_slist_remove(sl, l, e))

SListRemoveAt ==
    \E l \in sl.S : \E i \in ListIndexInputs(sl, l) : LFinish(cc_slist_remove_at(sl, l, i))

SListRemoveFirst ==
    \E l \in sl.S : LFinish(cc_slist_remove_first(sl, l))

SListRemoveAll ==
    \E l \in sl.S : LFinish(cc_slist_remove_all(sl, l))

SListRemoveAllCb ==
    \E l \in sl.S : LFinish(cc_slist_remove_all_cb(sl, l))

SListReplaceAt ==
    \E l \in sl.S, e \in Elems : \E i \in ListIndexInputs(sl, l) :
        LFinish(cc_slist_replace_at(sl, l, e, i))

SListGetAt ==
    \E l \in sl.S : \E i \in ListIndexInputs(sl, l) : LFinish(cc_slist_get_at(sl, l, i))

SListReverse ==
    \E l \in sl.S : LFinish(cc_slist_reverse(sl, l))

SListCopyShallow ==
    \E l \in sl.S, c \in ListIds \ sl.S : \E failAt \in FailInputs(sl, l) :
        LFinish(cc_slist_copy_shallow(sl, l, c, failAt))

SListContains ==
    \E l \in sl.S, e \in Elems : LFinish(cc_slist_contains(sl, l, e))

ListNext ==
    \/ SListNew \/ SListDestroy \/ SListAddFirst \/ SListAddLast \/ SListAddAt
    \/ SListSplice \/ SListRemove \/ SListRemoveAt \/ SListRemoveFirst \/ SListRemoveAll
    \/ SListRemoveAllCb \/ SListReplaceAt \/ SListGetAt \/ SListReverse
    \/ SListCopyShallow \/ SListContains

\* ---------------------------------------------------------- specifications
vars == <<ar, ret, oob, sl, lret>>

Init == ArrayInit /\ ListInit

Next == ArrayNext

\* the array
Spec == Init /\ [][Next]_vars

\* the list
SpecList == Init /\ [][ListNext]_vars

\* either container; the two share no state, so one is driven while the other
\* is as constructed
NextBoth == (ListInit /\ ArrayNext) \/ (ArrayInit /\ ListNext)

SpecBoth == Init /\ [][NextBoth]_vars

\* ------------------------------------------------------------------ claims
\* index arguments the claims are evaluated for
ClaimIdx(a) == IndexInputs(a) \cup {SIZE_MAX}

\* P(r) for the result r of every add and add_at on array a
ForAllAdds(a, P(_)) ==
    \A e \in Elems, ub \in ConvInputs(a), ok \in ExpandAllocs(a) :
        /\ P(cc_array_add(a, e, ub, ok))
        /\ \A i \in ClaimIdx(a) : P(cc_array_add_at(a, e, i, ub, ok))

\* P(r) for the result r of every other call that works on array a itself,
\* trim_capacity aside
ForAllInPlace(a, P(_)) ==
    /\ \A e \in Elems :
          /\ P(cc_array_remove(a, e))
          /\ P(cc_array_index_of(a, e))
          /\ P(cc_array_contains(a, e))
          /\ \A i \in ClaimIdx(a) : P(cc_array_replace_at(a, e, i))
    /\ \A i \in ClaimIdx(a) :
          /\ P(cc_array_remove_at(a, i))
          /\ P(cc_array_get_at(a, i))
          /\ \A j \in ClaimIdx(a) : P(cc_array_swap_at(a, i, j))
    /\ P(cc_array_remove_all(a))
    /\ P(cc_array_remove_all_free(a))
    /\ P(cc_array_reverse(a))

\* P(r) for the result r of every call on list l of heap h that can fail on its
\* arguments
ForAllListCalls(h, l, P(_)) ==
    /\ \A e \in Elems :
          /\ P(cc_slist_remove(h, l, e))
          /\ \A i \in ListIndexInputs(h, l) :
                /\ P(cc_slist_replace_at(h, l, e, i))
                /\ \A ok \in AllocInputs : P(cc_slist_add_at(h, l, e, i, ok))
    /\ \A i \in ListIndexInputs(h, l) :
          /\ P(cc_slist_remove_at(h, l, i))
          /\ P(cc_slist_get_at(h, l, i))
    /\ P(cc_slist_remove_first(h, l))
    /\ P(cc_slist_remove_all(h, l))
    /\ P(cc_slist_remove_all_cb(h, l))

\* the list invariant of list object l in heap h
ListInv(h, l) ==
    LET s == h.L[l]
    IN  /\ s.size = 0 <=> (s.head = NULL /\ s.tail = NULL)
        /\ s.size > 0 =>
              /\ s.tail # NULL
              /\ WalkTo(h, s.head, NULL, s.size - 1)[1] = s.tail
              /\ h.next[s.tail] = NULL

\* C1: in every state the list operations reach, size is 0 exactly when head
\* and tail are both NULL, and otherwise size - 1 forward links lead from head
\* to tail, whose forward link is NULL.
C1_ListInvariant == \A l \in sl.S : ListInv(sl, l)

\* a call has just returned with two lists in existence, one of two nodes and
\* one of one
C1_Witness ==
    /\ lret = CC_OK
    /\ \E a \in sl.S, b \in sl.S : sl.L[a].size = 2 /\ sl.L[b].size = 1
    /\ Cardinality(sl.live) = 3

\* C2: in every reachable state size <= capacity, and no call on an array other
\* than trim_capacity leaves its capacity smaller than it was.
C2_SizeWithinCapacity ==
    LET Keeps(r) == r.ar.capacity >= ar.capacity
    IN  /\ ar.size <= ar.capacity
        /\ ForAllAdds(ar, Keeps)
        /\ ForAllInPlace(ar, Keeps)

\* C3: the capacity is at least 1 in every reachable state.
C3_CapacityAtLeastOne == ar.capacity >= 1

\* C4: when the allocation of an expansion inside add or add_at fails, the call
\* returns CC_ERR_ALLOC and size, capacity and the elements are as before.
C4_AllocFailureNoEffect ==
    LET NoEffect(r) ==
            r.ret = CC_ERR_ALLOC =>
                /\ r.ar.size = ar.size
                /\ r.ar.capacity = ar.capacity
                /\ r.ar.buffer = ar.buffer
    IN  ForAllAdds(ar, NoEffect)

ErrorStatus == {CC_ERR_OUT_OF_RANGE, CC_ERR_VALUE_NOT_FOUND, CC_ERR_INVALID_RANGE}

\* C5: a call that returns CC_ERR_OUT_OF_RANGE, CC_ERR_VALUE_NOT_FOUND or
\* CC_ERR_INVALID_RANGE leaves the container as it was: the array's size,
\* elements and capacity, the list's size, nodes, head and tail.
C5_ErrorsHaveNoEffect ==
    LET Same(r) == r.ret \in ErrorStatus => r.ar = ar
        SameList(r) == r.ret \in ErrorStatus => r.h = sl
    IN  /\ ForAllAdds(ar, Same)
        /\ ForAllInPlace(ar, Same)
        /\ \A ok \in AllocInputs : Same(cc_array_trim_capacity(ar, ok))
        /\ \A i \in ClaimIdx(ar), j \in ClaimIdx(ar) :
              Same(cc_array_subarray(ar, i, j, TRUE, TRUE))
        /\ \A l \in sl.S : ForAllListCalls(sl, l, SameList)

\* a call on a container that holds elements has just returned such a status
C5_Witness ==
    \/ (ret \in ErrorStatus /\ ar.size >= 2)
    \/ (lret \in ErrorStatus /\ \E l \in sl.S : sl.L[l].size >= 2)

\* floor(capacity * growth factor) modulo the machine word if that is above the
\* capacity and within CC_MAX_ELEMENTS, and CC_MAX_ELEMENTS otherwise
ClaimedCapacity(a) ==
    LET p == Wrap(a.capacity * a.exp_factor)
    IN  IF p > a.capacity /\ p <= CC_MAX_ELEMENTS THEN p ELSE CC_MAX_ELEMENTS

\* C6: an expansion of a full array that succeeds sets the capacity to floor(capacity * growth
\* factor) if that is above the old capacity and within CC_MAX_ELEMENTS, and to
\* CC_MAX_ELEMENTS otherwise; the capacity never exceeds CC_MAX_ELEMENTS.
C6_GrowthClamped ==
    /\ ar.capacity <= CC_MAX_ELEMENTS
    /\ ar.size >= ar.capacity =>
          \A ub \in ConvInputs(ar) :
              LET r == expand_capacity(ar, ub, TRUE)
              IN  r.ret = CC_OK => r.ar.capacity = ClaimedCapacity(ar)

C8_Splice ==
    \A a \in sl.S, b \in sl.S :
        a # b =>
            LET r == cc_slist_splice(sl, a, b)
            IN  /\ r.ret = CC_OK
                /\ Seq_(r.h, a) = Seq_(sl, a) \o Seq_(sl, b)
                /\ r.h.L[a].size = sl.L[a].size + sl.L[b].size
                /\ r.h.L[b] = NoList
                /\ ListInv(r.h, a)
                /\ sl.L[b].size = 0 => r.h = sl

\* two lists hold [1, 2] and [2, 1], and splice leaves [1, 2, 2, 1] in the
\* first with the tail of the second
C8_Witness ==
    \E a \in sl.S, b \in sl.S :
        /\ Seq_(sl, a) = <<1, 2>>
        /\ Seq_(sl, b) = <<2, 1>>
        /\ Seq_(cc_slist_splice(sl, a, b).h, a) = <<1, 2, 2, 1>>
        /\ cc_slist_splice(sl, a, b).h.L[a].tail = sl.L[b].tail

\* C9: a successful add_at(e, i) with i <= size = n gives size n + 1, e at i,
\* the elements of [i, n) one index up and those below i where they were.
C9_AddAtShifts ==
    \A e \in Elems, i \in ClaimIdx(ar), ub \in ConvInputs(ar), ok \in ExpandAllocs(ar) :
        LET r == cc_array_add_at(ar, e, i, ub, ok)
        IN  (i <= ar.size /\ r.ret = CC_OK) =>
                /\ r.ar.size = ar.size + 1
                /\ Len(r.ar.buffer) = ar.size + 1
                /\ r.ar.buffer[i + 1] = e
                /\ \A k \in 0..(ar.size - 1) :
                      r.ar.buffer[(IF k < i THEN k ELSE k + 1) + 1] = ar.buffer[k + 1]

\* C10: add_at returns CC_ERR_OUT_OF_RANGE exactly when index > size, and for
\* index = size does what add does.
C10_AddAtRange ==
    \A e \in Elems, i \in ClaimIdx(ar), ub \in ConvInputs(ar), ok \in ExpandAllocs(ar) :
        LET r == cc_array_add_at(ar, e, i, ub, ok)
        IN  /\ r.ret = CC_ERR_OUT_OF_RANGE <=> i > ar.size
            /\ i = ar.size => r = cc_array_add(ar, e, ub, ok)

\* an add_at has just been refused on an array of two elements
C10_Witness ==
    /\ ret = CC_ERR_OUT_OF_RANGE
    /\ ar.size = 2
    /\ ar.buffer = <<1, 2>>

\* index arguments the list claims are evaluated for
ListClaimIdx(h, l) == ListIndexInputs(h, l) \cup {SIZE_MAX}

\* sequence q with x put in front of its element at 0-based index i
InsertAt(q, i, x) == SubSeq(q, 1, i) \o <<x>> \o SubSeq(q, i + 1, Len(q))

\* sequence q without its element at 0-based index i
RemoveAtIdx(q, i) == SubSeq(q, 1, i) \o SubSeq(q, i + 2, Len(q))

\* the nodes of list l, head first
NodesOf(h, l) == Chain(h, h.L[l].head, {})

\* C11: list add_at(e, index) returns CC_ERR_OUT_OF_RANGE exactly when
\* index >= size; when it succeeds the new node stands immediately before the
\* node that was at index, the elements from index on are one place up, size
\* is one more and tail is the same node.
C11_ListAddAt ==
    \A l \in sl.S : \A e \in Elems, i \in ListClaimIdx(sl, l), ok \in AllocInputs :
        LET r == cc_slist_add_at(sl, l, e, i, ok)
            new == Calloc(sl, ok)
        IN  /\ r.ret = CC_ERR_OUT_OF_RANGE <=> i >= sl.L[l].size
            /\ r.ret = CC_OK =>
                  /\ Seq_(r.h, l) = InsertAt(Seq_(sl, l), i, e)
                  /\ NodesOf(r.h, l) = InsertAt(NodesOf(sl, l), i, new)
                  /\ cc_slist_get_at(r.h, l, i).out = e
                  /\ r.h.L[l].size = sl.L[l].size + 1
                  /\ r.h.L[l].tail = sl.L[l].tail
                  /\ ListInv(r.h, l)

\* a list holds [1, 1] and add_at(2, 1) puts a new node between its two nodes
C11_Witness ==
    \E l \in sl.S :
        /\ Seq_(sl, l) = <<1, 1>>
        /\ cc_slist_add_at(sl, l, 2, 1, TRUE).ret = CC_OK
        /\ Seq_(cc_slist_add_at(sl, l, 2, 1, TRUE).h, l) = <<1, 2, 1>>
        /\ cc_slist_add_at(sl, l, 2, 1, TRUE).h.L[l].tail = sl.L[l].tail

\* C12: on an array of size n, remove_at(i) with i < n returns the element
\* that was at i and leaves size n - 1, the elements above i one index down
\* (get_at(i) gives what was at i + 1), those below i in place and the capacity
\* as it was.
C12_RemoveAt ==
    \A i \in ClaimIdx(ar) :
        i < ar.size =>
            LET r == cc_array_remove_at(ar, i)
            IN  /\ r.ret = CC_OK
                /\ r.out = ar.buffer[i + 1]
                /\ r.ar.size = ar.size - 1
                /\ r.ar.buffer = RemoveAtIdx(ar.buffer, i)
                /\ r.ar.capacity = ar.capacity
                /\ i < ar.size - 1 => cc_array_get_at(r.ar, i).out = ar.buffer[i + 2]

\* removals have brought an expanded array back to eight elements
C12_Witness ==
    /\ ret = CC_OK
    /\ ar.size = DEFAULT_CAPACITY
    /\ ar.capacity = 2 * DEFAULT_CAPACITY
    /\ ar.slots = ar.capacity

\* 0-based index of the first element of q equal to x
FirstIdx(q, x) == (CHOOSE k \in 1..Len(q) : q[k] = x /\ \A j \in 1..(k - 1) : q[j] # x) - 1

\* C13: array remove(e) returns CC_ERR_VALUE_NOT_FOUND exactly when no slot of
\* [0, size) holds e, an empty array included; otherwise it takes out the
\* lowest-index slot that holds e and nothing else, the later elements moving
\* one index down and size dropping by one.
C13_Remove ==
    \A e \in Elems :
        LET r == cc_array_remove(ar, e)
            held == \E k \in 1..Len(ar.buffer) : ar.buffer[k] = e
        IN  /\ r.ret = CC_ERR_VALUE_NOT_FOUND <=> ~held
            /\ held =>
                  /\ r.ret = CC_OK
                  /\ r.out = e
                  /\ r.ar.size = ar.size - 1
                  /\ r.ar.buffer = RemoveAtIdx(ar.buffer, FirstIdx(ar.buffer, e))
                  /\ r.ar.capacity = ar.capacity

\* an array holds a reference twice, apart, and remove takes the first out
C13_Witness ==
    /\ ar.buffer = <<1, 2, 1>>
    /\ cc_array_remove(ar, 1).ret = CC_OK
    /\ cc_array_remove(ar, 1).ar.buffer = <<2, 1>>

\* C14: list remove(e) returns CC_ERR_VALUE_NOT_FOUND exactly when no node
\* holds e; otherwise it unlinks the first node from head that holds e and no
\* other, the rest keeping their order, size drops by one, head moves when the
\* first node goes and tail moves to the predecessor, or NULL, when the last
\* node goes.
C14_ListRemove ==
    \A l \in sl.S : \A e \in Elems :
        LET r == cc_slist_remove(sl, l, e)
            q == Seq_(sl, l)
            ns == NodesOf(sl, l)
            held == \E k \in 1..Len(q) : q[k] = e
            i == FirstIdx(q, e)
        IN  /\ r.ret = CC_ERR_VALUE_NOT_FOUND <=> ~held
            /\ held =>
                  /\ r.ret = CC_OK
                  /\ r.out = e
                  /\ Seq_(r.h, l) = RemoveAtIdx(q, i)
                  /\ NodesOf(r.h, l) = RemoveAtIdx(ns, i)
                  /\ r.h.L[l].size = sl.L[l].size - 1
                  /\ r.h.L[l].head = (IF i = 0 THEN sl.next[ns[1]] ELSE sl.L[l].head)
                  /\ r.h.L[l].tail = (IF i + 1 < Len(ns) THEN sl.L[l].tail
                                      ELSE IF i = 0 THEN NULL ELSE ns[i])
                  /\ ns[i + 1] \notin r.h.live

\* a list holds [1, 2, 1]: remove(2) leaves [1, 1] with the same tail, and
\* remove(1) takes the head and leaves [2, 1]
C14_Witness ==
    \E l \in sl.S :
        /\ Seq_(sl, l) = <<1, 2, 1>>
        /\ Seq_(cc_slist_remove(sl, l, 2).h, l) = <<1, 1>>
        /\ cc_slist_remove(sl, l, 2).h.L[l].tail = sl.L[l].tail
        /\ Seq_(cc_slist_remove(sl, l, 1).h, l) = <<2, 1>>

\* array x after each of the later calls C15 and C17 name: add, remove_at,
\* reverse, remove_all
ArrayMutations(x) ==
    {cc_array_add(x, e, ub, ok).ar : e \in Elems, ub \in ConvInputs(x), ok \in ExpandAllocs(x)}
    \cup {cc_array_remove_at(x, i).ar : i \in ClaimIdx(x)}
    \cup {cc_array_reverse(x).ar, cc_array_remove_all(x).ar}

\* array y as it reads after another array has become x1, when the two have
\* their buffer in common (shares) and when not: slots x1 holds are its
\* contents, the others keep what they held
Seen(y, x1, shares) ==
    IF ~shares THEN y
    ELSE [y EXCEPT !.buffer = [k \in 1..Len(y.buffer) |->
                                  IF k <= Len(x1.buffer) THEN x1.buffer[k] ELSE y.buffer[k]]]

\* heap h after each of these calls on list l
ListMutations(h, l) ==
    {cc_slist_add_last(h, l, e, TRUE).h : e \in Elems}
    \cup {cc_slist_add_first(h, l, e, TRUE).h : e \in Elems}
    \cup {cc_slist_remove_at(h, l, i).h : i \in ListIndexInputs(h, l)}
    \cup {cc_slist_reverse(h, l).h, cc_slist_remove_all(h, l).h}

C16_ReverseTwice ==
    /\ LET r1 == cc_array_reverse(ar)
           r2 == cc_array_reverse(r1.ar)
       IN  /\ r2.ar.buffer = ar.buffer
           /\ r2.ar.size = ar.size
           /\ r1.ar.buffer = [k \in 1..Len(ar.buffer) |-> ar.buffer[Len(ar.buffer) + 1 - k]]
    /\ \A l \in sl.S :
          LET h1 == cc_slist_reverse(sl, l).h
              h2 == cc_slist_reverse(h1, l).h
          IN  /\ Seq_(h2, l) = Seq_(sl, l)
              /\ h2.L[l] = sl.L[l]
              /\ Len(Seq_(h1, l)) = Len(Seq_(sl, l))
              /\ \A k \in 1..Len(Seq_(sl, l)) :
                    Seq_(h1, l)[k] = Seq_(sl, l)[Len(Seq_(sl, l)) + 1 - k]

\* an array holds [1, 2]: one reverse gives [2, 1], the second [1, 2]
C16_Witness ==
    /\ ar.buffer = <<1, 2>>
    /\ cc_array_reverse(ar).ar.buffer = <<2, 1>>
    /\ cc_array_reverse(cc_array_reverse(ar).ar).ar.buffer = <<1, 2>>

C18_SubarrayInheritsFactor ==
    \A b \in ClaimIdx(ar), e \in ClaimIdx(ar) :
        LET r == cc_array_subarray(ar, b, e, TRUE, TRUE)
        IN  r.ret = CC_OK =>
                /\ r.ar.exp_factor = ar.exp_factor
                /\ \A x \in Elems, ub \in ConvInputs(r.ar) :
                      LET g == cc_array_add(r.ar, x, ub, TRUE)
                      IN  (r.ar.capacity * ar.exp_factor <= CC_MAX_ELEMENTS /\ g.ret = CC_OK)
                              => g.ar.capacity = r.ar.capacity * ar.exp_factor

\* C19: a trim_capacity that succeeds leaves size and the elements of
\* [0, size) as they were and capacity at max(size, 1); with the capacity
\* already at that value the call changes nothing.
C19_TrimCapacity ==
    \A ok \in AllocInputs :
        LET r == cc_array_trim_capacity(ar, ok)
            m == IF ar.size < 1 THEN 1 ELSE ar.size
        IN  /\ r.ret = CC_OK =>
                  /\ r.ar.size = ar.size
                  /\ r.ar.buffer = ar.buffer
                  /\ r.ar.capacity = m
            /\ ar.capacity = m => r.ar = ar

\* the array after k adds of element 1 on array a, each allocation granted
RECURSIVE AddN(_, _)
AddN(a, k) == IF k = 0 THEN a ELSE AddN(cc_array_add(a, 1, 0, TRUE).ar, k - 1)

\* C20: a new array has size 0, capacity 8 and growth factor 2; add and add_at
\* change the capacity only when called with size = capacity; k adds on a new
\* array leave capacity 8 for k <= 8 and 16 for 9 <= k <= 16; add_at(x, 9)
\* after the ninth add succeeds and leaves size 10.
C20_FreshArrayGrowth ==
    /\ cc_array_new.size = 0
    /\ cc_array_new.capacity = 8
    /\ cc_array_new.exp_factor = 2
    /\ \A e \in Elems, ub \in ConvInputs(ar), ok \in ExpandAllocs(ar) :
          /\ cc_array_add(ar, e, ub, ok).ar.capacity # ar.capacity => ar.size = ar.capacity
          /\ \A i \in ClaimIdx(ar) :
                cc_array_add_at(ar, e, i, ub, ok).ar.capacity # ar.capacity
                    => ar.size = ar.capacity
    /\ ar = cc_array_new =>
          /\ \A k \in 0..16 :
                /\ AddN(ar, k).size = k
                /\ AddN(ar, k).capacity = IF k <= 8 THEN 8 ELSE 16
          /\ \A x \in Elems :
                LET r == cc_array_add_at(AddN(ar, 9), x, 9, 0, TRUE)
                IN  r.ret = CC_OK /\ r.ar.size = 10 /\ r.ar.capacity = 16
    /\ (ar.size < 16 /\ ar = AddN(cc_array_new, ar.size)) =>
          \A e \in Elems :
              LET r == cc_array_add(ar, e, 0, TRUE)
              IN  /\ r.ret = CC_OK
                  /\ r.ar.size = ar.size + 1
                  /\ r.ar.capacity = IF ar.size + 1 <= 8 THEN 8 ELSE 16

\* nine adds on the new array have been made, the ninth the one that expanded,
\* and add_at(2, 9) now succeeds with size 10
C20_Witness ==
    /\ ar = AddN(cc_array_new, 9)
    /\ ar.capacity = 16
    /\ ret = CC_OK
    /\ cc_array_add_at(ar, 2, 9, 0, TRUE).ret = CC_OK
    /\ cc_array_add_at(ar, 2, 9, 0, TRUE).ar.size = 10

\* the set of the nodes of list l
NodeSet(h, l) == {NodesOf(h, l)[k] : k \in 1..Len(NodesOf(h, l))}

\* C21: remove_all on a list that holds something returns CC_OK and leaves
\* size 0 and head and tail NULL, each of its nodes freed and no reference
\* handed to a destructor; on an empty list it returns CC_ERR_VALUE_NOT_FOUND
\* and changes nothing.
C21_ListRemoveAll ==
    \A l \in sl.S :
        LET r == cc_slist_remove_all(sl, l)
        IN  /\ sl.L[l].size > 0 =>
                  /\ r.ret = CC_OK
                  /\ r.h.L[l] = NoList
                  /\ r.h.live = sl.live \ NodeSet(sl, l)
                  /\ NodeSet(sl, l) # {}
                  /\ r.out = << >>
                  /\ \A m \in sl.S \ {l} : Seq_(r.h, m) = Seq_(sl, m) /\ r.h.L[m] = sl.L[m]
            /\ sl.L[l].size = 0 =>
                  /\ r.ret = CC_ERR_VALUE_NOT_FOUND
                  /\ r.h = sl

\* a list holds [1, 2] next to another that holds [2]; remove_all on the first
\* frees its two nodes and leaves the other's
C21_Witness ==
    \E l \in sl.S, m \in sl.S :
        /\ Seq_(sl, l) = <<1, 2>>
        /\ Seq_(sl, m) = <<2>>
        /\ cc_slist_remove_all(sl, l).ret = CC_OK
        /\ cc_slist_remove_all(sl, l).h.L[l].size = 0
        /\ Cardinality(cc_slist_remove_all(sl, l).h.live) = 1

\* C22: remove_all_cb on a list and remove_all_free on an array call the
\* destructor once for each position the container held before the call, in
\* the order of the positions and with the reference held there, and for
\* nothing else, and leave size 0; on an empty container there is no call.
C22_DestructorCalls ==
    /\ LET r == cc_array_remove_all_free(ar)
       IN  /\ Len(r.out) = ar.size
           /\ \A k \in 1..ar.size : r.out[k] = ar.buffer[k]
           /\ r.ar.size = 0
           /\ ar.size = 0 => r.out = << >>
    /\ \A l \in sl.S :
          LET r == cc_slist_remove_all_cb(sl, l)
          IN  /\ Len(r.out) = sl.L[l].size
              /\ r.out = Seq_(sl, l)
              /\ r.h.L[l].size = 0
              /\ sl.L[l].size = 0 => (r.out = << >> /\ r.h = sl)

\* a list holds [1, 2, 1]: the destructor is called with 1, 2 and 1 again
C22_Witness ==
    \E l \in sl.S :
        /\ Seq_(sl, l) = <<1, 2, 1>>
        /\ cc_slist_remove_all_cb(sl, l).ret = CC_OK
        /\ cc_slist_remove_all_cb(sl, l).out = <<1, 2, 1>>
        /\ cc_slist_remove_all_cb(sl, l).h.L[l].size = 0

\* C23: a successful add_first(e) leaves e followed by the former sequence,
\* the new node being head; a successful add_last(e) leaves the former
\* sequence followed by e, the new node being tail; on a list that was empty
\* the new node is head and tail; size has grown by one in each case.
C23_AddFirstAddLast ==
    \A l \in sl.S, e \in Elems, ok \in AllocInputs :
        /\ LET r == cc_slist_add_first(sl, l, e, ok)
           IN  /\ r.ret = CC_OK <=> (ok /\ Nodes \ sl.live # {})
               /\ r.ret = CC_OK =>
                     /\ Seq_(r.h, l) = <<e>> \o Seq_(sl, l)
                     /\ r.h.L[l].size = sl.L[l].size + 1
                     /\ r.h.L[l].head \notin sl.live
                     /\ r.h.live = sl.live \cup {r.h.L[l].head}
                     /\ r.h.L[l].tail = IF sl.L[l].size = 0 THEN r.h.L[l].head
                                        ELSE sl.L[l].tail
                     /\ ListInv(r.h, l)
        /\ LET r == cc_slist_add_last(sl, l, e, ok)
           IN  /\ r.ret = CC_OK <=> (ok /\ Nodes \ sl.live # {})
               /\ r.ret = CC_OK =>
                     /\ Seq_(r.h, l) = Seq_(sl, l) \o <<e>>
                     /\ r.h.L[l].size = sl.L[l].size + 1
                     /\ r.h.L[l].tail \notin sl.live
                     /\ r.h.live = sl.live \cup {r.h.L[l].tail}
                     /\ r.h.L[l].head = IF sl.L[l].size = 0 THEN r.h.L[l].tail
                                        ELSE sl.L[l].head
                     /\ ListInv(r.h, l)

\* a list holds [1, 2]: add_first(2) gives [2, 1, 2] and add_last(1) gives
\* [1, 2, 1]
C23_Witness ==
    \E l \in sl.S :
        /\ Seq_(sl, l) = <<1, 2>>
        /\ cc_slist_add_first(sl, l, 2, TRUE).ret = CC_OK
        /\ Seq_(cc_slist_add_first(sl, l, 2, TRUE).h, l) = <<2, 1, 2>>
        /\ Seq_(cc_slist_add_last(sl, l, 1, TRUE).h, l) = <<1, 2, 1>>
        /\ cc_slist_add_last(sl, l, 1, TRUE).h.L[l].head = sl.L[l].head

\* C24: list reverse on a list of size n leaves at position k the element
\* that was at n - 1 - k, the size as it was, the former head as tail with a
\* NULL forward link and the former tail as head; a list of size 0 or 1 is not
\* written.
C24_ListReverse ==
    \A l \in sl.S :
        LET r == cc_slist_reverse(sl, l)
            n == sl.L[l].size
            q == Seq_(sl, l)
        IN  /\ Len(Seq_(r.h, l)) = n
            /\ \A k \in 0..(n - 1) : Seq_(r.h, l)[k + 1] = q[n - 1 - k + 1]
            /\ r.h.L[l].size = n
            /\ r.h.L[l].tail = sl.L[l].head
            /\ r.h.L[l].head = sl.L[l].tail
            /\ n > 0 => r.h.next[r.h.L[l].tail] = NULL
            /\ n <= 1 => r.h = sl
            /\ r.h.live = sl.live
            /\ \A m \in sl.S \ {l} : Seq_(r.h, m) = Seq_(sl, m) /\ r.h.L[m] = sl.L[m]

\* a list holds [1, 2, 2]: reversed it holds [2, 2, 1], head and tail exchanged
C24_Witness ==
    \E l \in sl.S :
        /\ Seq_(sl, l) = <<1, 2, 2>>
        /\ Seq_(cc_slist_reverse(sl, l).h, l) = <<2, 2, 1>>
        /\ cc_slist_reverse(sl, l).h.L[l].head = sl.L[l].tail
        /\ cc_slist_reverse(sl, l).h.L[l].tail = sl.L[l].head

\* the nodes some list in existence reaches from its head
Reachable(h) == UNION {NodeSet(h, l) : l \in h.S}

\* the allocated nodes of heap h are the nodes its lists reach, and no list
\* reaches a node of another
Owned(h) ==
    /\ h.live = Reachable(h)
    /\ \A l \in h.S, m \in h.S : l # m => NodeSet(h, l) \cap NodeSet(h, m) = {}

\* C25: in every state the allocated nodes are the nodes reachable from the
\* head of a list in existence; an add allocates one node when it succeeds
\* and none when it fails, a remove frees the node it unlinks, remove_all
\* frees every node of the list, a copy_shallow that fails has freed the nodes
\* it built, and no freed node is reachable.
C25_LiveIsReachable ==
    /\ Owned(sl)
    /\ \A l \in sl.S :
          /\ \A e \in Elems, ok \in AllocInputs :
                /\ LET r == cc_slist_add_first(sl, l, e, ok)
                   IN  Cardinality(r.h.live) = Cardinality(sl.live) + (IF r.ret = CC_OK THEN 1 ELSE 0)
                /\ LET r == cc_slist_add_last(sl, l, e, ok)
                   IN  Cardinality(r.h.live) = Cardinality(sl.live) + (IF r.ret = CC_OK THEN 1 ELSE 0)
                /\ \A i \in ListClaimIdx(sl, l) :
                      LET r == cc_slist_add_at(sl, l, e, i, ok)
                      IN  /\ Cardinality(r.h.live)
                                = Cardinality(sl.live) + (IF r.ret = CC_OK THEN 1 ELSE 0)
                          /\ Owned(r.h)
          /\ \A e \in Elems :
                LET g == get_node(sl, l, e)
                    r == cc_slist_remove(sl, l, e)
                IN  /\ r.h.live = IF r.ret = CC_OK THEN sl.live \ {g.node} ELSE sl.live
                    /\ Owned(r.h)
          /\ \A i \in ListClaimIdx(sl, l) :
                LET g == get_node_at(sl, l, i)
                    r == cc_slist_remove_at(sl, l, i)
                IN  /\ r.h.live = IF r.ret = CC_OK THEN sl.live \ {g.node} ELSE sl.live
                    /\ Owned(r.h)
          /\ LET r == cc_slist_remove_first(sl, l)
             IN  /\ r.h.live = IF r.ret = CC_OK THEN sl.live \ {sl.L[l].head} ELSE sl.live
                 /\ Owned(r.h)
          /\ LET r == cc_slist_remove_all(sl, l)
             IN  r.h.live = sl.live \ NodeSet(sl, l) /\ Owned(r.h)
          /\ \A c \in ListIds \ sl.S, f \in FailInputs(sl, l) :
                LET r == cc_slist_copy_shallow(sl, l, c, f)
                IN  /\ r.ret # CC_OK => r.h.live = sl.live
                    /\ Owned(r.h)
          /\ \A m \in sl.S : Owned(cc_slist_splice(sl, l, m).h)

\* C26: no call on an array reads or writes a slot at an index that is not
\* below the number of slots allocated for the buffer it goes through.
C26_ArrayAccessInBounds == oob = FALSE

\* how often x occurs in sequence q
Count(q, x) == Cardinality({k \in 1..Len(q) : q[k] = x})

\* the references lists a and b of heap h hold, those of a first; one list
\* given twice holds its references once
Held(h, a, b) == IF a = b THEN Seq_(h, a) ELSE Seq_(h, a) \o Seq_(h, b)

\* C27: splice loses no element: whatever two lists it is given, the same list
\* twice included, the references the two hold after the call are as a
\* multiset those they held before it, and both satisfy the list invariant.
C27_SpliceKeepsElements ==
    \A a \in sl.S, b \in sl.S :
        LET r == cc_slist_splice(sl, a, b)
        IN  /\ \A x \in Elems : Count(Held(r.h, a, b), x) = Count(Held(sl, a, b), x)
            /\ ListInv(r.h, a)
            /\ ListInv(r.h, b)

====
